---- MODULE Spec2Model ----
(***************************************************************************)
(* A model of time_tracker.py: the record codec (parse_td, dump_td,        *)
(* parse_entry, dump_entry), the Record store (marker file + append-only   *)
(* log file) and the commands built on it (start, status, end, switch,     *)
(* show, log).                                                             *)
(*                                                                         *)
(* Text is a sequence of one-character strings.  A datetime is the record  *)
(* [ord, sec, us] (proleptic Gregorian day ordinal, second of the day,     *)
(* microsecond); a timedelta is Python's normalised triple                 *)
(* [days, seconds, microseconds] with 0 <= seconds < 86400 and             *)
(* 0 <= microseconds < 10^6.                                               *)
(***************************************************************************)
EXTENDS Integers, Sequences, FiniteSets, TLC

VARIABLES
    rootExists,   \* the root directory exists
    logFile,      \* the file root/log.txt: [exists, text]
    marker,       \* the file root/_current_stamp: [exists, text]
    clock,        \* what datetime.now() returns
    pc,           \* position of the running command ("none" between commands)
    loc,          \* locals of the running command: start, delta, desc
    snap,         \* the log and marker files as the running command found them
    op,           \* the last Record method that ran
    ret,          \* what the last Record method returned
    written,      \* the arguments of every write() so far, in call order
    sess,         \* per write() so far: a command wrote it for the marker that
                  \* is still the current one
    out,          \* what the last step printed
    cin,          \* codec specification: the entry under test
    cline,        \* codec specification: dump_entry(cin)
    cout,         \* codec specification: parse_entry(cline)
    race,         \* concurrent start() calls: position, time read and
                  \* result of each process
    lastWriter    \* concurrent start() calls: the process whose write to the
                  \* marker came last

storeVars == <<rootExists, logFile, marker>>
cmdVars == <<pc, loc, snap, out>>
histVars == <<op, ret, written, sess>>
codecVars == <<cin, cline, cout>>
raceVars == <<race, lastWriter>>
vars == <<rootExists, logFile, marker, clock, pc, loc, snap, op, ret, written,
          sess, out, cin, cline, cout, race, lastWriter>>

----------------------------------------------------------------------------
(* Text helpers.                                                           *)

TAB == "\t"
NL == "\n"
SQ == "'"
DQ == "\""
BS == "\\"
SP == " "

Digits == <<"0", "1", "2", "3", "4", "5", "6", "7", "8", "9">>

IsDigit(c) == \E i \in 1..10 : Digits[i] = c

DigitVal(c) == (CHOOSE i \in 1..10 : Digits[i] = c) - 1

IsSpace(c) == c \in {SP, TAB, NL}

Chars(s) == {s[i] : i \in 1..Len(s)}

RECURSIVE Join(_)
Join(ss) == IF ss = <<>> THEN <<>> ELSE Head(ss) \o Join(Tail(ss))

\* f"{n:02}": decimal, zero-padded to at least `width` digits (n >= 0).
RECURSIVE DecDigits(_)
DecDigits(n) == IF n < 10 THEN <<Digits[n + 1]>>
                ELSE DecDigits(n \div 10) \o <<Digits[(n % 10) + 1]>>

RECURSIVE ZeroPad(_, _)
ZeroPad(s, width) == IF Len(s) >= width THEN s ELSE ZeroPad(<<"0">> \o s, width)

Fmt(n, width) == ZeroPad(DecDigits(n), width)

\* The value of a non-empty all-digit text.
RECURSIVE DecVal(_)
DecVal(s) == IF s = <<>> THEN 0
             ELSE DecVal(SubSeq(s, 1, Len(s) - 1)) * 10 + DigitVal(s[Len(s)])

AllDigits(s) == s # <<>> /\ \A i \in 1..Len(s) : IsDigit(s[i])

\* str.strip(): leading and trailing whitespace removed.
RECURSIVE LStrip(_)
LStrip(s) == IF s # <<>> /\ IsSpace(Head(s)) THEN LStrip(Tail(s)) ELSE s

RECURSIVE RStrip(_)
RStrip(s) == IF s # <<>> /\ IsSpace(s[Len(s)])
             THEN RStrip(SubSeq(s, 1, Len(s) - 1)) ELSE s

Strip(s) == RStrip(LStrip(s))

\* The position of the first character of s, from position i on, that is
\* in the set seps, or 0.
RECURSIVE FirstFrom(_, _, _)
FirstFrom(s, seps, i) ==
    IF i > Len(s) THEN 0
    ELSE IF s[i] \in seps THEN i
    ELSE FirstFrom(s, seps, i + 1)

\* The position of the first `sep` in s, or 0.
FirstIndex(s, sep) == FirstFrom(s, {sep}, 1)

\* str.split(sep, maxsplit): at most maxsplit cuts, the rest kept whole.
RECURSIVE SplitMax(_, _, _)
SplitMax(s, sep, maxsplit) ==
    LET i == FirstIndex(s, sep)
    IN  IF maxsplit = 0 \/ i = 0 THEN <<s>>
        ELSE <<SubSeq(s, 1, i - 1)>>
             \o SplitMax(SubSeq(s, i + 1, Len(s)), sep, maxsplit - 1)

\* str.split(sep): every cut.
Split(s, sep) == SplitMax(s, sep, Len(s))

\* Iterating a text file: the lines, each with its terminating newline
\* (the last one without, when the file does not end in a newline).
RECURSIVE FileLines(_)
FileLines(text) ==
    LET i == FirstIndex(text, NL)
    IN  IF text = <<>> THEN <<>>
        ELSE IF i = 0 THEN <<text>>
        ELSE <<SubSeq(text, 1, i)>> \o FileLines(SubSeq(text, i + 1, Len(text)))

----------------------------------------------------------------------------
(* Results of operations that can raise.                                   *)

Ok(v) == [ok |-> TRUE, val |-> v]
Raise == [ok |-> FALSE, val |-> <<>>]

----------------------------------------------------------------------------
(* datetime and timedelta.                                                 *)

SecPerDay == 24 * 60 * 60
UsPerSec == 1000 * 1000

IsLeap(y) == y % 4 = 0 /\ (y % 100 # 0 \/ y % 400 = 0)

DaysInMonth(y, m) ==
    IF m = 2 THEN (IF IsLeap(y) THEN 29 ELSE 28)
    ELSE IF m \in {4, 6, 9, 11} THEN 30 ELSE 31

DaysBeforeYear(y) ==
    (y - 1) * 365 + ((y - 1) \div 4) - ((y - 1) \div 100) + ((y - 1) \div 400)

RECURSIVE DaysBeforeMonth(_, _)
DaysBeforeMonth(y, m) ==
    IF m = 1 THEN 0 ELSE DaysBeforeMonth(y, m - 1) + DaysInMonth(y, m - 1)

\* date(y, m, d).toordinal()
Ymd2Ord(y, m, d) == DaysBeforeYear(y) + DaysBeforeMonth(y, m) + d

\* date.fromordinal(n): the year, month and day of ordinal n.
OrdYear(n) ==
    CHOOSE y \in ((n \div 366))..((n \div 365) + 1) :
        DaysBeforeYear(y) < n /\ n <= DaysBeforeYear(y + 1)

OrdMonth(n) ==
    LET y == OrdYear(n)
    IN  CHOOSE m \in 1..12 :
            /\ Ymd2Ord(y, m, 1) <= n
            /\ n < Ymd2Ord(y, m, 1) + DaysInMonth(y, m)

OrdDay(n) == n - Ymd2Ord(OrdYear(n), OrdMonth(n), 1) + 1

MkDateTime(y, m, d, hh, mm, ss, us) ==
    [ord |-> Ymd2Ord(y, m, d), sec |-> hh * 3600 + mm * 60 + ss, us |-> us]

\* timedelta(days, seconds, microseconds): Python's normalisation.
MkTimeDelta(days, seconds, us) ==
    LET s1 == seconds + (us \div UsPerSec)
    IN  [days |-> days + (s1 \div SecPerDay),
         seconds |-> s1 % SecPerDay,
         microseconds |-> us % UsPerSec]

ZeroDelta == MkTimeDelta(0, 0, 0)

\* datetime - datetime
DtSub(a, b) == MkTimeDelta(a.ord - b.ord, a.sec - b.sec, a.us - b.us)

\* datetime + timedelta
DtAdd(dt, td) ==
    LET u == dt.us + td.microseconds
        s1 == dt.sec + td.seconds + (u \div UsPerSec)
    IN  [ord |-> dt.ord + td.days + (s1 \div SecPerDay),
         sec |-> s1 % SecPerDay,
         us |-> u % UsPerSec]

\* datetime.date()
DateOf(dt) == dt.ord

\* Orderings used by the properties.
DtLeq(a, b) ==
    \/ a.ord < b.ord
    \/ a.ord = b.ord /\ a.sec < b.sec
    \/ a.ord = b.ord /\ a.sec = b.sec /\ a.us <= b.us

TdLeq(a, b) ==
    \/ a.days < b.days
    \/ a.days = b.days /\ a.seconds < b.seconds
    \/ a.days = b.days /\ a.seconds = b.seconds /\ a.microseconds <= b.microseconds

\* The datetime cut to whole seconds.
TruncSec(dt) == [dt EXCEPT !.us = 0]

----------------------------------------------------------------------------
(* The record codec.                                                       *)

\* strftime with the hour written on the 12-hour clock (%I for %H).
strftime_12h(dt) ==
    LET h == dt.sec \div 3600
    IN  Fmt(OrdYear(dt.ord), 4) \o <<"-">> \o Fmt(OrdMonth(dt.ord), 2) \o <<"-">>
        \o Fmt(OrdDay(dt.ord), 2) \o <<SP>>
        \o Fmt(IF h % 12 = 0 THEN 12 ELSE h % 12, 2) \o <<":">>
        \o Fmt((dt.sec % 3600) \div 60, 2) \o <<":">> \o Fmt(dt.sec % 60, 2)

\* datetime.strftime(DATE_FORMAT), DATE_FORMAT = "%Y-%m-%d %H:%M:%S":
\* the microsecond is not written.
strftime(dt) ==
    Fmt(OrdYear(dt.ord), 4) \o <<"-">> \o Fmt(OrdMonth(dt.ord), 2) \o <<"-">>
    \o Fmt(OrdDay(dt.ord), 2) \o <<SP>>
    \o Fmt(dt.sec \div 3600, 2) \o <<":">> \o Fmt((dt.sec % 3600) \div 60, 2)
    \o <<":">> \o Fmt(dt.sec % 60, 2)

\* One numeric field of strptime: lo..hi digits, value within vmin..vmax.
FieldOk(s, lo, hi, vmin, vmax) ==
    /\ AllDigits(s)
    /\ Len(s) >= lo /\ Len(s) <= hi
    /\ DecVal(s) >= vmin /\ DecVal(s) <= vmax

\* datetime.strptime(text, DATE_FORMAT): %Y is four digits, the other
\* fields one or two; the blank of the format matches a run of whitespace;
\* the whole text must match.  Raises ValueError otherwise.
strptime(text) ==
    LET i == FirstFrom(text, {SP, TAB, NL}, 1)
        d == Split(SubSeq(text, 1, i - 1), "-")
        t == Split(LStrip(SubSeq(text, i + 1, Len(text))), ":")
    IN  IF /\ i > 0
           /\ Len(d) = 3 /\ Len(t) = 3
           /\ FieldOk(d[1], 4, 4, 1, 9999)
           /\ FieldOk(d[2], 1, 2, 1, 12)
           /\ FieldOk(d[3], 1, 2, 1, 31)
           /\ DecVal(d[3]) <= DaysInMonth(DecVal(d[1]), DecVal(d[2]))
           /\ FieldOk(t[1], 1, 2, 0, 23)
           /\ FieldOk(t[2], 1, 2, 0, 59)
           /\ FieldOk(t[3], 1, 2, 0, 59)
        THEN Ok(MkDateTime(DecVal(d[1]), DecVal(d[2]), DecVal(d[3]),
                           DecVal(t[1]), DecVal(t[2]), DecVal(t[3]), 0))
        ELSE Raise

\* int(text): optional surrounding whitespace, optional sign, digits.
ParseInt(text) ==
    LET s == Strip(text)
        signed == s # <<>> /\ Head(s) \in {"-", "+"}
        body == IF signed THEN Tail(s) ELSE s
    IN  IF AllDigits(body)
        THEN Ok(IF signed /\ Head(s) = "-" THEN 0 - DecVal(body) ELSE DecVal(body))
        ELSE Raise

\* parse_td: hours, minutes, seconds = map(int, td.split(":"))
parse_td(td) ==
    LET parts == Split(td, ":")
        h == ParseInt(parts[1])
        m == ParseInt(parts[2])
        s == ParseInt(parts[3])
    IN  IF Len(parts) = 3 /\ h.ok /\ m.ok /\ s.ok
        THEN Ok(MkTimeDelta(0, h.val * 3600 + m.val * 60 + s.val, 0))
        ELSE Raise

\* dump_td: the three fields are computed from td.seconds alone.
dump_td(td) ==
    LET hours == td.seconds \div (60 * 60)
        minutes == (td.seconds % (60 * 60)) \div 60
        seconds == td.seconds % 60
    IN  Fmt(hours, 2) \o <<":">> \o Fmt(minutes, 2) \o <<":">> \o Fmt(seconds, 2)

\* repr() of a str: single quotes, unless the text holds a single quote and
\* no double quote; backslash, the chosen quote, newline and tab are escaped.
ReprQuote(desc) == IF SQ \in Chars(desc) /\ DQ \notin Chars(desc) THEN DQ ELSE SQ

ReprChar(c, q) ==
    IF c = BS THEN <<BS, BS>>
    ELSE IF c = q THEN <<BS, c>>
    ELSE IF c = NL THEN <<BS, "n">>
    ELSE IF c = TAB THEN <<BS, "t">>
    ELSE <<c>>

repr(desc) ==
    LET q == ReprQuote(desc)
    IN  <<q>> \o Join([i \in 1..Len(desc) |-> ReprChar(desc[i], q)]) \o <<q>>

\* The body of one string literal of s opened with quote q, read from
\* position i: its value and the position after the closing quote.
RECURSIVE ScanStr(_, _, _, _)
ScanStr(s, i, q, acc) ==
    IF i > Len(s) THEN Raise
    ELSE IF s[i] = q THEN Ok([val |-> acc, next |-> i + 1])
    ELSE IF s[i] = NL THEN Raise
    ELSE IF s[i] = BS
    THEN IF i + 1 > Len(s) THEN Raise
         ELSE LET e == s[i + 1]
                  v == IF e = "n" THEN <<NL>>
                       ELSE IF e = "t" THEN <<TAB>>
                       ELSE IF e \in {BS, SQ, DQ} THEN <<e>>
                       ELSE IF e = NL THEN <<>>
                       ELSE <<BS, e>>
              IN  ScanStr(s, i + 2, q, acc \o v)
    ELSE ScanStr(s, i + 1, q, acc \o <<s[i]>>)

\* Adjacent string literals of s from position i on, concatenated as the
\* Python parser concatenates them; n counts the literals read so far.
RECURSIVE ScanLiterals(_, _, _, _)
ScanLiterals(s, i, acc, n) ==
    IF i > Len(s) THEN (IF n > 0 THEN Ok(acc) ELSE Raise)
    ELSE IF s[i] \in {SP, TAB} THEN ScanLiterals(s, i + 1, acc, n)
    ELSE IF s[i] \in {SQ, DQ}
    THEN LET r == ScanStr(s, i + 1, s[i], <<>>)
         IN  IF r.ok THEN ScanLiterals(s, r.val.next, acc \o r.val.val, n + 1)
             ELSE Raise
    ELSE Raise

\* ast.literal_eval(text), for the texts that are string literals; any
\* other text raises here.
literal_eval(text) == ScanLiterals(text, 1, <<>>, 0)

\* dump_entry: f"{start.strftime(DATE_FORMAT)}\t{dump_td(delta)}\t{desc!r}"
dump_entry(entry) ==
    strftime(entry.start) \o <<TAB>> \o dump_td(entry.delta) \o <<TAB>>
    \o repr(entry.desc)

\* parse_entry: start, delta, desc = line.strip().split("\t", 2), then the
\* three fields are parsed; any failure raises.
parse_entry(line) ==
    LET parts == SplitMax(Strip(line), TAB, 2)
        start == strptime(parts[1])
        delta == parse_td(parts[2])
        desc == literal_eval(parts[3])
    IN  IF Len(parts) = 3 /\ start.ok /\ delta.ok /\ desc.ok
        THEN Ok([start |-> start.val, delta |-> delta.val, desc |-> desc.val])
        ELSE Raise

----------------------------------------------------------------------------
(* Files, optional values and the sampled inputs.                          *)

NoFile == [exists |-> FALSE, text |-> <<>>]
File(text) == [exists |-> TRUE, text |-> text]

None == [some |-> FALSE, val |-> <<>>]
Some(v) == [some |-> TRUE, val |-> v]

\* The most lines the log file is let grow to.
MaxLog == 2

\* The instants the wall clock is sampled at, in increasing order: one just
\* before midnight, one a few seconds later on the next calendar day and
\* within a second, one more than 24 hours after that.
Instants ==
    << MkDateTime(2024, 2, 28, 23, 59, 58, 0),
       MkDateTime(2024, 2, 29, 0, 0, 3, 500000),
       MkDateTime(2024, 3, 1, 1, 0, 3, 500000) >>

InstantSet == {Instants[i] : i \in 1..Len(Instants)}

\* What the editor hands back to end and switch (click.edit()).
EditorTexts ==
    { <<SP, NL>>,
      <<SQ, TAB, BS, "n", NL, DQ, NL>> }

\* The entries write() is called with directly.
WriteArgs ==
    { [start |-> Instants[1], delta |-> MkTimeDelta(0, 5, 0), desc |-> <<>>],
      [start |-> TruncSec(Instants[3]), delta |-> MkTimeDelta(1, 3600, 0),
       desc |-> <<DQ, NL, SQ>>] }

\* The --date option of show: absent, or a text.
ShowDates ==
    { None,
      Some(<<"2", "0", "2", "4", "-", "0", "2", "-", "2", "8">>),
      Some(<<"2", "0", "2", "4", "-", "0", "3", "-", "0", "1">>) }

----------------------------------------------------------------------------
(* The Record store: each method as a function of the files and the clock. *)

\* Record.__init__: mkdir the root and touch the log when they are missing.
\* Record.__init__ opening the log for writing whether or not it exists.
Record_init_truncating(files) ==
    [files EXCEPT !.rootExists = TRUE, !.logFile = File(<<>>)]

Record_init(files) ==
    [files EXCEPT !.rootExists = TRUE,
                  !.logFile = IF files.logFile.exists THEN files.logFile
                              ELSE File(<<>>)]

\* Record.start without the early return: the marker is rewritten even when
\* it exists.
Record_start_overwrite(mk, now) ==
    [marker |-> File(strftime(now)), ret |-> ~mk.exists]

\* Record.start: the new marker file and the value returned.
Record_start(mk, now) ==
    IF mk.exists
    THEN [marker |-> mk, ret |-> FALSE]
    ELSE [marker |-> File(strftime(now)), ret |-> TRUE]

\* Record.current with the subtraction the wrong way round.
Record_current_reversed(mk, now) ==
    IF ~mk.exists
    THEN Ok([start |-> None, delta |-> ZeroDelta])
    ELSE LET start == strptime(mk.text)
         IN  IF start.ok
             THEN Ok([start |-> Some(start.val), delta |-> DtSub(start.val, now)])
             ELSE Raise

\* Record.current: (start, delta), or Raise when the marker does not parse.
Record_current(mk, now) ==
    IF ~mk.exists
    THEN Ok([start |-> None, delta |-> ZeroDelta])
    ELSE LET start == strptime(mk.text)
         IN  IF start.ok
             THEN Ok([start |-> Some(start.val), delta |-> DtSub(now, start.val)])
             ELSE Raise

\* Record.write with the log opened in mode "w" instead of "a".
Record_write_truncating(lf, start, delta, desc) ==
    File(dump_entry([start |-> start, delta |-> delta, desc |-> desc]) \o <<NL>>)

\* Record.write putting the new line in front of the log.
Record_write_prepending(lf, start, delta, desc) ==
    File(dump_entry([start |-> start, delta |-> delta, desc |-> desc])
         \o <<NL>> \o lf.text)

\* Record.write: the log file after the append.
Record_write(lf, start, delta, desc) ==
    File(lf.text
         \o dump_entry([start |-> start, delta |-> delta, desc |-> desc])
         \o <<NL>>)

\* [parse_entry(line) for line in f]: the entries of `lines` appended to
\* acc, or Raise at the first line that does not parse.
RECURSIVE parse_lines(_, _)
parse_lines(lines, acc) ==
    IF lines = <<>> THEN Ok(acc)
    ELSE LET e == parse_entry(Head(lines))
         IN  IF ~e.ok THEN Raise
             ELSE parse_lines(Tail(lines), Append(acc, e.val))

\* Record.load: every line parsed, or Raise when one of them does not parse.
Record_load(lf) == parse_lines(FileLines(lf.text), <<>>)

\* Record.stop that never unlinks.
Record_stop_keep(mk) == mk

\* Record.stop: the marker file after the unlink.
Record_stop(mk) == IF mk.exists THEN NoFile ELSE mk

----------------------------------------------------------------------------
(* The state machine.                                                      *)

NoLoc == [start |-> None, delta |-> ZeroDelta, desc |-> <<>>]
NoSnap == [logFile |-> [exists |-> FALSE, text |-> <<>>],
           marker |-> [exists |-> FALSE, text |-> <<>>]]
NoOut == [msg |-> "", body |-> <<>>]
NoEntry == [start |-> Instants[1], delta |-> ZeroDelta, desc |-> <<>>]

\* The number of lines in the log file.
LogLen == Cardinality({i \in 1..Len(logFile.text) : logFile.text[i] = NL})

\* A Record has been constructed on the root.
Constructed == rootExists /\ logFile.exists

\* The files as a fresh process finds them after `record = Record(...)`.
Booted == Record_init([rootExists |-> rootExists, logFile |-> logFile])

\* The processes that call start() at the same time.
Procs == {"p", "q"}

\* A process that has not called start().
Idle == [pc |-> "idle", time |-> Instants[1], ret |-> None]

\* Nobody is inside a concurrent start().
NoRace ==
    /\ race = [p \in Procs |-> Idle]
    /\ lastWriter = "none"

\* Bookkeeping of the Record method that ran in this step.  A successful
\* start() opens a new session, so no earlier entry belongs to the current
\* marker any more; a write() made by end or switch belongs to it.
Ran(name, result, w) ==
    /\ op' = name
    /\ ret' = result
    /\ written' = w
    /\ sess' = IF name = "start" /\ result = TRUE
               THEN [i \in 1..Len(sess) |-> FALSE]
               ELSE IF name = "write" THEN Append(sess, pc # "none")
               ELSE sess

\* The state before the first run: an empty disk, the clock at its first
\* instant.
Init ==
    /\ rootExists = FALSE
    /\ logFile = NoFile
    /\ marker = NoFile
    /\ clock = Instants[1]
    /\ pc = "none"
    /\ loc = NoLoc
    /\ snap = NoSnap
    /\ op = "none"
    /\ ret = None
    /\ written = <<>>
    /\ sess = <<>>
    /\ out = NoOut
    /\ cin = NoEntry
    /\ cline = <<>>
    /\ cout = Raise
    /\ NoRace

(* The environment. *)

\* Time passes: the clock moves to a later instant (the clock of this model
\* never goes backwards).
Tick ==
    /\ \E i \in 1..Len(Instants) : DtLeq(clock, Instants[i]) /\ clock # Instants[i]
                                   /\ clock' = Instants[i]
    /\ UNCHANGED <<storeVars, cmdVars, histVars, codecVars, raceVars>>

\* The process dies in the middle of a command.
Crash ==
    /\ pc # "none"
    /\ pc' = "none"
    /\ loc' = NoLoc
    /\ snap' = NoSnap
    /\ out' = [msg |-> "crashed", body |-> <<>>]
    /\ UNCHANGED <<storeVars, clock, histVars, codecVars, raceVars>>

(* The Record methods, called on a constructed Record between commands. *)

Initialize ==
    /\ pc = "none"
    /\ rootExists' = Booted.rootExists
    /\ logFile' = Booted.logFile
    /\ Ran("init", None, written)
    /\ out' = NoOut
    /\ UNCHANGED <<marker, clock, pc, loc, snap, codecVars, raceVars>>

Start ==
    /\ pc = "none" /\ Constructed
    /\ LET r == Record_start(marker, clock)
       IN  marker' = r.marker /\ Ran("start", r.ret, written)
    /\ out' = NoOut
    /\ UNCHANGED <<rootExists, logFile, clock, pc, loc, snap, codecVars, raceVars>>

Current ==
    /\ pc = "none" /\ Constructed
    /\ Ran("current", Record_current(marker, clock), written)
    /\ out' = NoOut
    /\ UNCHANGED <<storeVars, clock, pc, loc, snap, codecVars, raceVars>>

Write ==
    /\ pc = "none" /\ Constructed
    /\ LogLen < MaxLog
    /\ \E e \in WriteArgs :
          /\ logFile' = Record_write(logFile, e.start, e.delta, e.desc)
          /\ Ran("write", None, Append(written, e))
    /\ out' = NoOut
    /\ UNCHANGED <<rootExists, marker, clock, pc, loc, snap, codecVars, raceVars>>

Load ==
    /\ pc = "none" /\ Constructed
    /\ Ran("load", Record_load(logFile), written)
    /\ out' = NoOut
    /\ UNCHANGED <<storeVars, clock, pc, loc, snap, codecVars, raceVars>>

Stop ==
    /\ pc = "none" /\ Constructed
    /\ marker' = Record_stop(marker)
    /\ Ran("stop", None, written)
    /\ out' = NoOut
    /\ UNCHANGED <<rootExists, logFile, clock, pc, loc, snap, codecVars, raceVars>>

(* The commands.  Each runs in a fresh process, which first constructs  *)
(* the Record (line 93); end and switch take several steps, and time may  *)
(* pass or the process may die between them.                              *)

Say(m, b) == [msg |-> m, body |-> b]

Boot ==
    /\ rootExists' = Booted.rootExists
    /\ logFile' = Booted.logFile

\* The start command.
start ==
    /\ pc = "none"
    /\ Boot
    /\ LET r == Record_start(marker, clock)
       IN  /\ marker' = r.marker
           /\ Ran("start", r.ret, written)
           /\ out' = IF r.ret THEN Say("started", <<>>) ELSE Say("already", <<>>)
    /\ UNCHANGED <<clock, pc, loc, snap, codecVars, raceVars>>

\* f"{time:%H:%M:%S}" for time = datetime(1, 1, 1) + delta, which overflows
\* when delta is negative.
Elapsed(delta) ==
    LET time == DtAdd(MkDateTime(1, 1, 1, 0, 0, 0, 0), delta)
    IN  IF time.ord < 1 THEN Raise
        ELSE Ok(Fmt(time.sec \div 3600, 2) \o <<":">>
                \o Fmt((time.sec % 3600) \div 60, 2) \o <<":">>
                \o Fmt(time.sec % 60, 2))

\* The status command.
status ==
    /\ pc = "none"
    /\ Boot
    /\ LET r == Record_current(marker, clock)
       IN  /\ Ran("current", r, written)
           /\ out' = IF ~r.ok THEN Say("raised", <<>>)
                     ELSE IF ~r.val.start.some THEN Say("not_tracking", <<>>)
                     ELSE IF ~Elapsed(r.val.delta).ok THEN Say("raised", <<>>)
                     ELSE Say("elapsed", Elapsed(r.val.delta).val)
    /\ UNCHANGED <<marker, clock, pc, loc, snap, codecVars, raceVars>>

\* The first lines of end and of switch without the `if start is None`
\* return: the command goes on to ask for a description.
AskCurrent_nocheck(next) ==
    /\ pc = "none"
    /\ Boot
    /\ LET r == Record_current(marker, clock)
       IN  /\ Ran("current", r, written)
           /\ pc' = next
           /\ loc' = [start |-> r.val.start, delta |-> r.val.delta, desc |-> <<>>]
           /\ snap' = [logFile |-> logFile, marker |-> marker]
           /\ out' = NoOut
    /\ UNCHANGED <<marker, clock, codecVars, raceVars>>

\* The first lines of end and of switch (122-128, 137-143): current(), and
\* the return when the timer is not tracking.
AskCurrent(next) ==
    /\ pc = "none"
    /\ marker.exists => LogLen < MaxLog
    /\ Boot
    /\ LET r == Record_current(marker, clock)
       IN  /\ Ran("current", r, written)
           /\ IF ~r.ok
              THEN /\ pc' = "none" /\ loc' = NoLoc /\ snap' = NoSnap
                   /\ out' = Say("raised", <<>>)
              ELSE IF ~r.val.start.some
              THEN /\ pc' = "none" /\ loc' = NoLoc /\ snap' = NoSnap
                   /\ out' = Say("not_tracking", <<>>)
              ELSE /\ pc' = next
                   /\ loc' = [start |-> r.val.start, delta |-> r.val.delta,
                              desc |-> <<>>]
                   /\ snap' = [logFile |-> logFile, marker |-> marker]
                   /\ out' = NoOut
    /\ UNCHANGED <<marker, clock, codecVars, raceVars>>

\* desc = click.edit().strip(), the editor returning a text.
Edit(at, next) ==
    /\ pc = at
    /\ \E text \in EditorTexts : loc' = [loc EXCEPT !.desc = Strip(text)]
    /\ pc' = next
    /\ UNCHANGED <<storeVars, clock, snap, out, histVars, codecVars, raceVars>>

\* An abort of the description that gives the session up: the marker is
\* removed before the command ends.
EditAbort_stopping(at) ==
    /\ pc = at
    /\ pc' = "none"
    /\ loc' = NoLoc
    /\ snap' = NoSnap
    /\ out' = Say("raised", <<>>)
    /\ marker' = NoFile
    /\ UNCHANGED <<rootExists, logFile, clock, histVars, codecVars, raceVars>>

\* desc = click.edit().strip(), the editor returning None: the command
\* raises AttributeError and ends.
EditAbort(at) ==
    /\ pc = at
    /\ pc' = "none"
    /\ loc' = NoLoc
    /\ snap' = NoSnap
    /\ out' = Say("raised", <<>>)
    /\ UNCHANGED <<storeVars, clock, histVars, codecVars, raceVars>>

\* record.write(start, delta, desc)
WriteEntry(at, next) ==
    /\ pc = at
    /\ logFile' = Record_write(logFile, loc.start.val, loc.delta, loc.desc)
    /\ Ran("write", None,
           Append(written, [start |-> loc.start.val, delta |-> loc.delta,
                            desc |-> loc.desc]))
    /\ pc' = next
    /\ UNCHANGED <<rootExists, marker, clock, loc, snap, out, codecVars, raceVars>>

end_current == AskCurrent("end_edit")
end_edit == Edit("end_edit", "end_write")
end_edit_abort == EditAbort("end_edit")

\* end with record.stop() called before record.write().
end_write_stop_first ==
    /\ pc = "end_write"
    /\ marker' = Record_stop(marker)
    /\ Ran("stop", None, written)
    /\ pc' = "end_stop"
    /\ UNCHANGED <<rootExists, logFile, clock, loc, snap, out, codecVars, raceVars>>

end_write == WriteEntry("end_write", "end_stop")

end_stop ==
    /\ pc = "end_stop"
    /\ marker' = Record_stop(marker)
    /\ Ran("stop", None, written)
    /\ pc' = "none"
    /\ loc' = NoLoc
    /\ snap' = NoSnap
    /\ out' = Say("stopped", <<>>)
    /\ UNCHANGED <<rootExists, logFile, clock, codecVars, raceVars>>

switch_current == AskCurrent("switch_edit")
switch_edit == Edit("switch_edit", "switch_write")
switch_edit_abort == EditAbort("switch_edit")
switch_write == WriteEntry("switch_write", "switch_stop")

\* switch without its record.stop().
switch_stop_skipped ==
    /\ pc = "switch_stop"
    /\ pc' = "switch_start"
    /\ UNCHANGED <<storeVars, clock, loc, snap, out, histVars, codecVars, raceVars>>

switch_stop ==
    /\ pc = "switch_stop"
    /\ marker' = Record_stop(marker)
    /\ Ran("stop", None, written)
    /\ pc' = "switch_start"
    /\ UNCHANGED <<rootExists, logFile, clock, loc, snap, out, codecVars, raceVars>>

switch_start ==
    /\ pc = "switch_start"
    /\ LET r == Record_start(marker, clock)
       IN  marker' = r.marker /\ Ran("start", r.ret, written)
    /\ pc' = "none"
    /\ loc' = NoLoc
    /\ snap' = NoSnap
    /\ out' = Say("switching", <<>>)
    /\ UNCHANGED <<rootExists, logFile, clock, codecVars, raceVars>>

\* datetime.strptime(date, "%Y-%m-%d")
strptime_date(text) ==
    LET d == Split(text, "-")
    IN  IF /\ Len(d) = 3
           /\ FieldOk(d[1], 4, 4, 1, 9999)
           /\ FieldOk(d[2], 1, 2, 1, 12)
           /\ FieldOk(d[3], 1, 2, 1, 31)
           /\ DecVal(d[3]) <= DaysInMonth(DecVal(d[1]), DecVal(d[2]))
        THEN Ok(MkDateTime(DecVal(d[1]), DecVal(d[2]), DecVal(d[3]), 0, 0, 0, 0))
        ELSE Raise

\* show without the on_date filter: every entry of the log is printed.
show_records_unfiltered(loaded, date, now) ==
    LET date_time == IF date.some THEN strptime_date(date.val) ELSE Ok(now)
    IN  IF date_time.ok /\ loaded.ok THEN Ok(loaded.val) ELSE Raise

\* The records show prints, `loaded` being what record.load() gave, for
\* the --date option `date` at time `now`.
show_records(loaded, date, now) ==
    LET date_time == IF date.some THEN strptime_date(date.val) ELSE Ok(now)
        on_date(entry) == DateOf(entry.start) = DateOf(date_time.val)
    IN  IF date_time.ok /\ loaded.ok
        THEN Ok(SelectSeq(loaded.val, on_date))
        ELSE Raise

\* What show printed, with the --date option it was run with.
Shown(m, date, b) == [msg |-> m, body |-> b, date |-> date]

\* The show command.
show ==
    /\ pc = "none"
    /\ Boot
    /\ \E loaded \in {Record_load(Booted.logFile)} :
       \E date \in ShowDates :
       \E r \in {show_records(loaded, date, clock)} :
          /\ Ran("load", loaded, written)
          /\ out' = IF ~r.ok THEN Shown("raised", date, <<>>)
                    ELSE IF r.val = <<>> THEN Shown("no_entries", date, <<>>)
                    ELSE Shown("show", date, r.val)
    /\ UNCHANGED <<marker, clock, pc, loc, snap, codecVars, raceVars>>

Reverse(s) == [i \in 1..Len(s) |-> s[Len(s) + 1 - i]]

\* reverse_log without `curr = date.date()` inside the `if curr != ...`: the
\* date of the group is only ever set from the first entry.
RECURSIVE reverse_log_stale(_, _)
reverse_log_stale(entries, curr) ==
    IF entries = <<>> THEN <<>>
    ELSE LET date == Head(entries).start
             c1 == IF ~curr.some THEN Some(DateOf(date)) ELSE curr
             brk == c1.val # DateOf(date)
         IN  (IF brk THEN << <<NL>> >> ELSE <<>>)
             \o << dump_entry(Head(entries)) \o <<NL>> >>
             \o reverse_log_stale(Tail(entries), c1)

\* The generator reverse_log over the entries still to come, `curr` being
\* the date of the group it is in.
RECURSIVE reverse_log(_, _)
reverse_log(entries, curr) ==
    IF entries = <<>> THEN <<>>
    ELSE LET date == Head(entries).start
             c1 == IF ~curr.some THEN Some(DateOf(date)) ELSE curr
             brk == c1.val # DateOf(date)
         IN  (IF brk THEN << <<NL>> >> ELSE <<>>)
             \o << dump_entry(Head(entries)) \o <<NL>> >>
             \o reverse_log(Tail(entries), Some(DateOf(date)))

\* The log command.
log ==
    /\ pc = "none"
    /\ Boot
    /\ \E loaded \in {Record_load(Booted.logFile)} :
          /\ Ran("load", loaded, written)
          /\ out' = IF ~loaded.ok THEN Say("raised", <<>>)
                    ELSE Say("log", reverse_log(Reverse(loaded.val), None))
    /\ UNCHANGED <<marker, clock, pc, loc, snap, codecVars, raceVars>>

Next ==
    \/ Tick \/ Crash
    \/ Initialize \/ Start \/ Current \/ Write \/ Load \/ Stop
    \/ start \/ status
    \/ end_current \/ end_edit \/ end_edit_abort \/ end_write \/ end_stop
    \/ switch_current \/ switch_edit \/ switch_edit_abort \/ switch_write
    \/ switch_stop \/ switch_start
    \/ show \/ log

Spec == Init /\ [][Next]_vars

\* The commands alone, run one at a time by a single user: no Record method
\* is called except by a command.
CmdNext ==
    \/ Tick \/ Crash
    \/ start \/ status
    \/ end_current \/ end_edit \/ end_edit_abort \/ end_write \/ end_stop
    \/ switch_current \/ switch_edit \/ switch_edit_abort \/ switch_write
    \/ switch_stop \/ switch_start
    \/ show \/ log

CmdSpec == Init /\ [][CmdNext]_vars

----------------------------------------------------------------------------
(* The codec on its own: an entry is drawn, dumped, and the line parsed.   *)

\* The longest description drawn.
MaxDescLen == 2

DescChars == {"n", SP, SQ, DQ, BS, TAB, NL}

RECURSIVE DescsUpTo(_)
DescsUpTo(n) ==
    IF n = 0 THEN {<<>>}
    ELSE LET shorter == DescsUpTo(n - 1)
         IN  shorter \cup {Append(d, c) : d \in shorter, c \in DescChars}

CodecStarts ==
    { MkDateTime(2023, 12, 31, 23, 59, 59, 0),
      MkDateTime(2024, 2, 29, 0, 0, 0, 0),
      MkDateTime(2024, 3, 1, 9, 5, 7, 0) }

CodecDeltas ==
    { MkTimeDelta(0, 0, 0),
      MkTimeDelta(0, 5, 0),
      MkTimeDelta(0, 23 * 3600 + 59 * 60 + 59, 0),
      MkTimeDelta(1, 0, 0),
      MkTimeDelta(4, 3600 + 61, 0) }

CodecInit ==
    /\ rootExists = FALSE
    /\ logFile = NoFile
    /\ marker = NoFile
    /\ clock = Instants[1]
    /\ pc = "dump"
    /\ loc = NoLoc
    /\ snap = NoSnap
    /\ op = "none"
    /\ ret = None
    /\ written = <<>>
    /\ sess = <<>>
    /\ out = NoOut
    /\ cin \in [start : CodecStarts, delta : CodecDeltas,
                desc : DescsUpTo(MaxDescLen)]
    /\ cline = <<>>
    /\ cout = Raise
    /\ NoRace

CodecDump ==
    /\ pc = "dump"
    /\ cline' = dump_entry(cin)
    /\ pc' = "parse"
    /\ UNCHANGED <<storeVars, clock, loc, snap, out, histVars, cin, cout, raceVars>>

CodecParse ==
    /\ pc = "parse"
    /\ cout' = parse_entry(cline)
    /\ pc' = "done"
    /\ UNCHANGED <<storeVars, clock, loc, snap, out, histVars, cin, cline, raceVars>>

CodecNext == CodecDump \/ CodecParse

CodecSpec == CodecInit /\ [][CodecNext]_vars

(* Record.start called by two processes on one root, statement by
   statement. *)

\* A constructed Record, no session open.
RaceInit ==
    /\ rootExists = TRUE
    /\ logFile = File(<<>>)
    /\ marker = NoFile
    /\ clock = Instants[1]
    /\ pc = "none"
    /\ loc = NoLoc
    /\ snap = NoSnap
    /\ op = "none"
    /\ ret = None
    /\ written = <<>>
    /\ sess = <<>>
    /\ out = NoOut
    /\ cin = NoEntry
    /\ cline = <<>>
    /\ cout = Raise
    /\ NoRace

RaceFrame == UNCHANGED <<rootExists, logFile, clock, cmdVars, histVars, codecVars>>

\* if (self.root / self.current_stamp).exists(): return False
start_exists(p) ==
    /\ race[p].pc = "idle"
    /\ race' = [race EXCEPT ![p] =
                   IF marker.exists
                   THEN [pc |-> "done", time |-> @.time, ret |-> Some(FALSE)]
                   ELSE [@ EXCEPT !.pc = "now"]]
    /\ UNCHANGED <<marker, lastWriter>>
    /\ RaceFrame

\* time = datetime.now()
start_now(p) ==
    /\ race[p].pc = "now"
    /\ race' = [race EXCEPT ![p] = [@ EXCEPT !.pc = "open", !.time = clock]]
    /\ UNCHANGED <<marker, lastWriter>>
    /\ RaceFrame

\* open(..., "w"): the marker file is created, or emptied if it is there.
start_open(p) ==
    /\ race[p].pc = "open"
    /\ marker' = File(<<>>)
    /\ race' = [race EXCEPT ![p] = [@ EXCEPT !.pc = "write"]]
    /\ UNCHANGED lastWriter
    /\ RaceFrame

\* A write that leaves alone what another process has written.
start_write_first(p) ==
    /\ race[p].pc = "write"
    /\ marker' = IF marker.text = <<>> THEN File(strftime(race[p].time))
                 ELSE marker
    /\ lastWriter' = p
    /\ race' = [race EXCEPT ![p] = [@ EXCEPT !.pc = "return"]]
    /\ RaceFrame

\* f.write(time.strftime(DATE_FORMAT)) and the close of the file: the text
\* goes to the start of the file, over what is there.
start_write(p) ==
    /\ race[p].pc = "write"
    /\ marker' = File(strftime(race[p].time))
    /\ lastWriter' = p
    /\ race' = [race EXCEPT ![p] = [@ EXCEPT !.pc = "return"]]
    /\ RaceFrame

\* return True
start_return(p) ==
    /\ race[p].pc = "return"
    /\ race' = [race EXCEPT ![p] = [@ EXCEPT !.pc = "done", !.ret = Some(TRUE)]]
    /\ UNCHANGED <<marker, lastWriter>>
    /\ RaceFrame

RaceNext ==
    \/ Tick
    \/ \E p \in Procs :
          \/ start_exists(p) \/ start_now(p) \/ start_open(p)
          \/ start_write(p) \/ start_return(p)

RaceSpec == RaceInit /\ [][RaceNext]_vars

(* The reading commands over logs of any content and order. *)

\* The most entries of a log that is read.
MaxRead == 3

\* The entries the logs are made of: one late on a day, two on the next day,
\* one on the day after.
ReadEntries ==
    { [start |-> Instants[1], delta |-> MkTimeDelta(0, 5, 0), desc |-> <<>>],
      [start |-> TruncSec(Instants[2]), delta |-> MkTimeDelta(0, 3600, 0),
       desc |-> <<"n">>],
      [start |-> MkDateTime(2024, 2, 29, 13, 30, 0, 0),
       delta |-> MkTimeDelta(0, 61, 0), desc |-> <<SQ, TAB>>],
      [start |-> TruncSec(Instants[3]), delta |-> MkTimeDelta(0, 0, 0),
       desc |-> <<DQ>>] }

RECURSIVE EntriesUpTo(_)
EntriesUpTo(n) ==
    IF n = 0 THEN {<<>>}
    ELSE LET shorter == EntriesUpTo(n - 1)
         IN  shorter \cup {Append(es, e) : es \in shorter, e \in ReadEntries}

\* The log file after write() was called with each entry of es in turn.
RECURSIVE Written(_)
Written(es) ==
    IF es = <<>> THEN File(<<>>)
    ELSE LET e == es[Len(es)]
         IN  Record_write(Written(SubSeq(es, 1, Len(es) - 1)),
                          e.start, e.delta, e.desc)

\* A constructed Record over any such log, with or without a marker.
ReadInit ==
    /\ rootExists = TRUE
    /\ logFile \in {Written(es) : es \in EntriesUpTo(MaxRead)}
    /\ marker \in {NoFile, File(strftime(Instants[1]))}
    /\ clock = Instants[1]
    /\ pc = "none"
    /\ loc = NoLoc
    /\ snap = NoSnap
    /\ op = "none"
    /\ ret = None
    /\ written = <<>>
    /\ sess = <<>>
    /\ out = NoOut
    /\ cin = NoEntry
    /\ cline = <<>>
    /\ cout = Raise
    /\ NoRace

ReadNext == Tick \/ show \/ log \/ Load

ReadSpec == ReadInit /\ [][ReadNext]_vars

(* load() over logs whose lines were not all written by write(). *)

\* The most lines of such a log.
MaxDecode == 2

Stamp == strftime(Instants[1])
Duration == dump_td(MkTimeDelta(0, 5, 0))
Quoted == <<SQ, "n", SQ>>

\* The lines the logs are made of: as write() makes them, with a fourth
\* field that is a literal, with a fourth field that is none, with two
\* fields, with one-digit date and time fields, with one-digit duration
\* fields, with a letter in the duration, with an unterminated literal.
DecodeLines ==
    { Stamp \o <<TAB>> \o Duration \o <<TAB>> \o Quoted \o <<NL>>,
      Stamp \o <<TAB>> \o Duration \o <<TAB>> \o Quoted \o <<TAB>> \o Quoted
        \o <<NL>>,
      Stamp \o <<TAB>> \o Duration \o <<TAB>> \o Quoted \o <<TAB, "n", NL>>,
      Stamp \o <<TAB>> \o Duration \o <<NL>>,
      <<"2", "0", "2", "4", "-", "2", "-", "8", SP, "3", ":", "9", ":", "8", TAB>>
        \o Duration \o <<TAB>> \o Quoted \o <<NL>>,
      Stamp \o <<TAB, "0", ":", "0", ":", "5", TAB>> \o Quoted \o <<NL>>,
      Stamp \o <<TAB, "0", "0", ":", "0", "n", ":", "0", "5", TAB>> \o Quoted
        \o <<NL>>,
      Stamp \o <<TAB>> \o Duration \o <<TAB, SQ, "n", NL>> }

RECURSIVE LinesUpTo(_)
LinesUpTo(n) ==
    IF n = 0 THEN {<<>>}
    ELSE LET shorter == LinesUpTo(n - 1)
         IN  shorter \cup {text \o line : text \in shorter, line \in DecodeLines}

\* A constructed Record over any such log.
DecodeInit ==
    /\ rootExists = TRUE
    /\ logFile \in {File(text) : text \in LinesUpTo(MaxDecode)}
    /\ marker = NoFile
    /\ clock = Instants[1]
    /\ pc = "none"
    /\ loc = NoLoc
    /\ snap = NoSnap
    /\ op = "none"
    /\ ret = None
    /\ written = <<>>
    /\ sess = <<>>
    /\ out = NoOut
    /\ cin = NoEntry
    /\ cline = <<>>
    /\ cout = Raise
    /\ NoRace

DecodeNext == Tick \/ Load \/ show \/ log

DecodeSpec == DecodeInit /\ [][DecodeNext]_vars

----------------------------------------------------------------------------
(* The properties.                                                         *)

\* A step in which Record.start runs.
StartStep == Start \/ start \/ switch_start

\* A step in which Record.current runs.
CurrentStep == Current \/ status \/ end_current \/ switch_current

\* What current() would return now.
CurrentNow == Record_current(marker, clock)

\* C1: whenever the marker exists, a step running Record.start returns False
\* and leaves the marker file and the log file as they were.
C1_StartRefused ==
    [][(StartStep /\ marker.exists)
          => (ret' = FALSE /\ marker' = marker /\ logFile' = logFile)]_vars

\* C1 witness: start() has just been refused while the marker holds an
\* earlier second than the clock shows.
C1_Witness ==
    /\ op = "start" /\ ret = FALSE
    /\ marker.exists
    /\ marker.text # strftime(clock)

\* C2: current() returns a start exactly when the marker exists; right after
\* a start() that returned True it returns the clock of that start() cut to
\* the second; after a stop(), and until the next method runs, it returns
\* (None, zero).
C2_Lifecycle ==
    /\ [](CurrentNow.ok /\ (CurrentNow.val.start.some <=> marker.exists))
    /\ [](op = "stop" => CurrentNow = Ok([start |-> None, delta |-> ZeroDelta]))
    /\ [][(StartStep /\ ret' = TRUE)
             => Record_current(marker', clock').val.start = Some(TruncSec(clock))]_vars

\* C2 witness: start() has just returned True at an instant with a fraction
\* of a second, and current() returns that instant cut to the second.
C2_Witness ==
    /\ op = "start" /\ ret = TRUE
    /\ clock.us # 0
    /\ CurrentNow.val.start = Some(TruncSec(clock))

\* An entry write() is specified for: a timestamp in whole seconds and a
\* non-negative duration in whole seconds.
ValidEntry(e) ==
    e.start.us = 0 /\ e.delta.days >= 0 /\ e.delta.microseconds = 0

\* C3: load() returns exactly the entries written, in call order, whenever
\* every one of them was a valid entry.
C3_AppendOnly ==
    (Constructed /\ \A i \in 1..Len(written) : ValidEntry(written[i]))
        => Record_load(logFile) = Ok(written)

\* C4: parse_entry(dump_entry(entry)) = entry for every valid entry drawn.
C4_RoundTrip == pc = "done" => cout = Ok(cin)


\* The log line of the session the running command is closing.
ClosingLine ==
    dump_entry([start |-> loc.start.val, delta |-> loc.delta, desc |-> loc.desc])
    \o <<NL>>

\* The running command has appended the entry of the session it is closing.
ClosingLogged == logFile.text = snap.logFile.text \o ClosingLine

\* The timestamp in the marker file.
MarkerTime == strptime(marker.text)

\* The last entry of the log.
LastEntry ==
    LET lines == FileLines(logFile.text)
    IN  parse_entry(lines[Len(lines)])

\* C5: inside end and switch the entry is appended before the marker is
\* removed: between write() and stop() the store is Tracking with the old
\* start time and the entry is in the log; the step that removes the marker
\* finds the entry logged; a crash between the two steps leaves both files
\* as they are.
C5_WriteBeforeStop ==
    /\ []((pc \in {"end_edit", "end_write", "end_stop", "switch_edit",
                   "switch_write", "switch_stop", "switch_start"}
           /\ ~marker.exists) => ClosingLogged)
    /\ [](pc \in {"end_stop", "switch_stop"}
             => (marker.exists /\ MarkerTime = Ok(loc.start.val) /\ ClosingLogged))
    /\ [][(pc # "none" /\ marker.exists /\ ~marker'.exists)
             => (ClosingLogged /\ logFile' = logFile)]_vars
    /\ [][(Crash /\ pc \in {"end_stop", "switch_stop"})
             => (marker' = marker /\ logFile' = logFile)]_vars

\* C5 witness: the process died between write() and stop(): the marker is
\* still there and the last entry of the log is the session it names.
C5_Witness ==
    /\ out.msg = "crashed" /\ op = "write"
    /\ marker.exists
    /\ LastEntry.ok /\ MarkerTime = Ok(LastEntry.val.start)

\* C6: the step that completes switch finds the store Idle, leaves the log
\* one entry longer than switch found it, that entry starting at the old
\* marker's timestamp, and writes a marker holding the clock of that step,
\* its start() returning True.
C6_SwitchNetEffect ==
    [][switch_start =>
          LET old == FileLines(snap.logFile.text)
              new == FileLines(logFile'.text)
          IN  /\ ~marker.exists
              /\ Len(new) = Len(old) + 1
              /\ SubSeq(new, 1, Len(old)) = old
              /\ parse_entry(new[Len(new)]).ok
              /\ Ok(parse_entry(new[Len(new)]).val.start) = strptime(snap.marker.text)
              /\ ret' = TRUE
              /\ marker'.exists
              /\ strptime(marker'.text) = Ok(TruncSec(clock'))]_vars

\* C6 witness: switch has completed and the new marker holds a later time
\* than the start of the entry it logged.
C6_Witness ==
    /\ out.msg = "switching" /\ op = "start" /\ ret = TRUE
    /\ marker.exists
    /\ LastEntry.ok /\ MarkerTime.ok /\ MarkerTime.val # LastEntry.val.start

\* C7: stop() leaves the store Idle and the log as it was; applied to its
\* own result it changes nothing; on an Idle store, and right after another
\* stop(), it changes no file.
C7_StopIdempotent ==
    /\ [](~Record_stop(marker).exists
          /\ Record_stop(Record_stop(marker)) = Record_stop(marker))
    /\ [][(Stop \/ end_stop \/ switch_stop)
             => (~marker'.exists /\ logFile' = logFile)]_vars
    /\ [][(Stop /\ (~marker.exists \/ op = "stop")) => UNCHANGED storeVars]_vars

\* C7 witness: stop() has just run; the store is Idle and the log, which
\* holds an entry, is still there.
C7_Witness == op = "stop" /\ ~marker.exists /\ LogLen > 0

\* C8: status, end and switch on an Idle store report "not tracking" and
\* end there: no description is asked for, no entry is appended, no marker is
\* created.
C8_NotTracking ==
    [][((status \/ end_current \/ switch_current) /\ ~marker.exists)
          => /\ out'.msg = "not_tracking"
             /\ pc' = "none"
             /\ marker' = marker
             /\ logFile'.text = logFile.text
             /\ written' = written]_vars

\* C8 witness: a command has just reported "not tracking" on an Idle store
\* whose log holds an entry.
C8_Witness ==
    out.msg = "not_tracking" /\ op = "current" /\ ~marker.exists /\ LogLen > 0

IsPrefix(a, b) == Len(a) <= Len(b) /\ SubSeq(b, 1, Len(a)) = a

\* C9: in every step the old text of the log is a prefix of the new one,
\* the log file is never removed, and the text changes only in a step that
\* runs write().
C9_LogAppendOnly ==
    [][/\ IsPrefix(logFile.text, logFile'.text)
       /\ logFile.exists => logFile'.exists
       /\ logFile'.text # logFile.text => (Write \/ end_write \/ switch_write)]_vars

\* C9 witness: a second entry has been appended to the log.
C9_Witness == LogLen >= 2 /\ op = "write"

\* C10: a step running current() changes neither the marker nor the log;
\* while the marker exists it returns the marker's timestamp and the
\* duration that, added to it, gives the clock; of two calls in a row the
\* second returns the same start and a duration no smaller.
C10_CurrentPure ==
    /\ [][CurrentStep => (marker' = marker /\ logFile'.text = logFile.text)]_vars
    /\ [][(CurrentStep /\ marker.exists)
             => /\ ret'.ok
                /\ Ok(ret'.val.start.val) = MarkerTime
                /\ DtAdd(ret'.val.start.val, ret'.val.delta) = clock]_vars
    /\ [][(CurrentStep /\ marker.exists /\ op = "current")
             => /\ ret'.val.start = ret.val.start
                /\ TdLeq(ret.val.delta, ret'.val.delta)]_vars

\* C10 witness: current() has returned a duration of more than a day for
\* the open session.
C10_Witness ==
    /\ op = "current" /\ ret.ok /\ ret.val.start.some
    /\ marker.exists
    /\ ret.val.delta.days >= 1


(* C14 *)

\* The files as the step leaves them.
FilesAfter == [rootExists |-> rootExists', logFile |-> logFile']

\* C14: constructing a Record never destroys anything and is idempotent: the
\* marker (presence and timestamp) and the contents of the log are as before,
\* an existing log file is left as it is, the root directory and the log
\* file exist afterwards, and constructing once more changes nothing.
C14_InitializeIdempotent ==
    [][Initialize =>
          /\ marker' = marker
          /\ logFile'.text = logFile.text
          /\ (logFile.exists => logFile' = logFile)
          /\ rootExists' /\ logFile'.exists
          /\ Record_init(FilesAfter) = FilesAfter]_vars

\* A Record has just been constructed on a root that holds a marker and a
\* log with entries.
C14_Witness ==
    /\ op = "init"
    /\ marker.exists
    /\ LogLen > 0

(* C19 *)

\* C19: when the editor returns no text in end or in switch, the command
\* ends with the store as it was before the command: the same marker, still
\* present, and the same log; nothing was written and no session started.
C19_AbortKeepsSession ==
    [][(end_edit_abort \/ switch_edit_abort) =>
          /\ marker' = marker /\ logFile' = logFile
          /\ marker = snap.marker /\ logFile = snap.logFile
          /\ marker'.exists
          /\ written' = written
          /\ pc' = "none"]_vars

\* A command has just raised after current() found a running timer, and the
\* marker is still there.
C19_Witness ==
    /\ pc = "none"
    /\ out.msg = "raised"
    /\ op = "current"
    /\ marker.exists


(* C16 *)

\* C16: whatever start, end and switch commands one process ran while the
\* clock never went back, the log decodes and its entries are in
\* non-decreasing order of start timestamp.
C16_Chronological ==
    logFile.exists =>
       \A l \in {Record_load(logFile)} :
          /\ l.ok
          /\ \A i \in 1..(Len(l.val) - 1) :
                DtLeq(l.val[i].start, l.val[i + 1].start)

\* The commands logged two sessions that began at different instants.
C16_Witness ==
    /\ LogLen = 2
    /\ \E l \in {Record_load(logFile)} :
          l.ok /\ l.val[1].start # l.val[2].start

(* C17 *)

\* C17: when switch has completed on a running timer, the timestamp of the
\* new marker is the start of the entry it logged plus that entry's
\* duration, however long the editor was open.
C17_NoIdleGap ==
    (pc = "none" /\ out.msg = "switching" /\ op = "start" /\ ret = TRUE) =>
       /\ MarkerTime.ok /\ LastEntry.ok
       /\ MarkerTime.val = DtAdd(LastEntry.val.start, LastEntry.val.delta)

(* C18 *)

\* The entries of the log that end or switch wrote for the marker that is now
\* the current one.
FromCurrentMarker == {i \in 1..Len(sess) : sess[i]}

\* C18: the log never holds two entries written for the same successful
\* start(), also when a command died between write() and stop() and end or
\* switch was run again.
C18_LoggedOnce == Cardinality(FromCurrentMarker) <= 1


(* C11 *)

\* The positions of the entries that started on the calendar day of d.
OnDay(entries, d) == {i \in 1..Len(entries) : entries[i].start.ord = d.ord}

\* The k-th smallest member of a set of positions.
Kth(idx, k) == CHOOSE i \in idx : Cardinality({j \in idx : j <= i}) = k

\* The day show is asked about: the one named by --date, today without it.
ShownDay(date, now) == IF date.some THEN strptime_date(date.val).val ELSE now

\* C11: for every log and every date D, show lists the entries of load()
\* whose start is on D, all of them, in the order of the log, and nothing
\* else; it leaves the marker and the log as they are.
C11_DateFilter ==
    [][show =>
          /\ marker' = marker
          /\ logFile' = logFile
          /\ \A l \in {Record_load(logFile)} :
             \A idx \in {OnDay(l.val, ShownDay(out'.date, clock))} :
                /\ l.ok
                /\ out'.msg = IF idx = {} THEN "no_entries" ELSE "show"
                /\ Len(out'.body) = Cardinality(idx)
                /\ \A k \in 1..Len(out'.body) :
                      out'.body[k] = l.val[Kth(idx, k)]]_vars

\* show was given a date and listed two entries of a log that holds a third
\* one of another day.
C11_Witness ==
    /\ out.msg = "show"
    /\ out.date.some
    /\ Len(out.body) = 2
    /\ LogLen = 3

(* C12 *)

\* The number of positions 2..k of `r` whose entry started on another day
\* than the entry before it.
DayChanges(r, k) ==
    Cardinality({j \in 2..k : r[j].start.ord # r[j - 1].start.ord})

\* C12: log emits the entries of load() last first, each as its line, with
\* one empty line before every entry that started on another day than the
\* entry emitted before it, and no other line: none between entries of the
\* same day, none before the first entry, none after the last.
C12_Grouping ==
    out.msg = "log" =>
       \A l \in {Record_load(logFile)} :
       \A r \in {Reverse(l.val)} :
          /\ l.ok
          /\ Len(out.body) = Len(r) + DayChanges(r, Len(r))
          /\ \A k \in 1..Len(r) :
                /\ out.body[k + DayChanges(r, k)] = dump_entry(r[k]) \o <<NL>>
                /\ (k > 1 /\ r[k].start.ord # r[k - 1].start.ord)
                      => out.body[k + DayChanges(r, k) - 1] = <<NL>>

\* log printed three entries, the first two of them of the same day, with
\* one separator.
C12_Witness ==
    /\ out.msg = "log"
    /\ LogLen = 3
    /\ Len(out.body) = 4
    /\ out.body[3] = <<NL>>


(* C13 *)

\* YYYY-MM-DD HH:MM:SS, every field of its full width, naming a real instant.
FixedStamp(f) ==
    /\ Len(f) = 19
    /\ f[5] = "-" /\ f[8] = "-" /\ f[11] = SP /\ f[14] = ":" /\ f[17] = ":"
    /\ \A i \in (1..19) \ {5, 8, 11, 14, 17} : IsDigit(f[i])
    /\ strptime(f).ok

\* HH:MM:SS, two digits each, the hours possibly more.
FixedDuration(f) ==
    LET p == Split(f, ":")
    IN  /\ Len(p) = 3
        /\ AllDigits(p[1]) /\ AllDigits(p[2]) /\ AllDigits(p[3])
        /\ Len(p[1]) >= 2 /\ Len(p[2]) = 2 /\ Len(p[3]) = 2

\* One quoted literal, closed by its own quote at the end of the field.
OneLiteral(f) ==
    /\ Len(f) >= 2
    /\ f[1] \in {SQ, DQ}
    /\ \A r \in {ScanStr(f, 2, f[1], <<>>)} : r.ok /\ r.val.next = Len(f) + 1

\* The line, without its newline, is three tab-separated fields of the
\* format the log is written in.
WellFormed(line) ==
    LET body == IF line # <<>> /\ line[Len(line)] = NL
                THEN SubSeq(line, 1, Len(line) - 1) ELSE line
        f == Split(body, TAB)
    IN  /\ Len(f) = 3
        /\ FixedStamp(f[1])
        /\ FixedDuration(f[2])
        /\ OneLiteral(f[3])

\* C13: when some line of the log is not three tab-separated fields, or its
\* date-time or duration is not in the fixed format, or its description is
\* not a quoted literal, load() raises and returns no entries; so a line of
\* more than three tab-separated fields makes load() raise.
C13_DecodeErrors ==
    (op = "load" /\ \E line \in Chars(FileLines(logFile.text)) : ~WellFormed(line))
       => ~ret.ok


(* C15 *)

\* Process p has returned from start() with True.
Started(p) == race[p].pc = "done" /\ race[p].ret = Some(TRUE)

\* C15: two start() calls on one idle root can both find no marker, both
\* write it and both return True; whenever both have returned True the
\* marker holds the timestamp of the write that came last.
C15_LastWriteWins ==
    (\A p \in Procs : Started(p)) =>
       /\ lastWriter \in Procs
       /\ marker = File(strftime(race[lastWriter].time))

\* Both processes have returned True from start(), having read the clock
\* at different seconds.
C15_Witness ==
    /\ \A p \in Procs : Started(p)
    /\ strftime(race["p"].time) # strftime(race["q"].time)

====
